---- MODULE Spec2Model ----
(***************************************************************************)
(* Pressbooks Math Converter: the React component App (src/src/App.tsx)     *)
(* and the conversion service convertToPressbooks                           *)
(* (src/src/services/geminiService.ts).                                     *)
(*                                                                          *)
(* The specifications:                                                      *)
(*   Spec        the App component: its useState cells, the handlers the    *)
(*               rendered controls can invoke, and the asynchronous         *)
(*               operations those handlers leave outstanding;               *)
(*   SpecService one call of convertToPressbooks, from the request to the   *)
(*               external capability to the returned / thrown outcome;      *)
(*   SpecPdf     the page layout loop of downloadPDF.                        *)
(***************************************************************************)
EXTENDS Integers, Sequences, FiniteSets, TLC

VARIABLES
    input,      \* useState('')     : the text to convert, a sequence of characters
    url,        \* useState('')     : the URL field
    result,     \* useState(null)   : ConversionResult | null
    isLoading,  \* useState(false)
    error,      \* useState(null)   : string | null
    activeTab,  \* useState('text') : 'text' | 'file' | 'url'
    pending,    \* the asynchronous operations started by the handlers and not yet settled
    nextId,     \* number of asynchronous operations started so far
    calls,      \* number of calls of convertToPressbooks so far
    requests,   \* number of ai.models.generateContent requests issued so far
    last,       \* the handler or continuation that ran last
    pdf,        \* the document downloadPDF builds, followed line by line (SpecPdf)
    svc         \* one call of convertToPressbooks, followed step by step (SpecService)

appVars == <<input, url, result, isLoading, error, activeTab, pending, nextId,
             calls, requests, last, pdf>>
vars == <<input, url, result, isLoading, error, activeTab, pending, nextId,
          calls, requests, last, pdf, svc>>

----------------------------------------------------------------------------
(* Bounds *)

MaxLiveOps == 2    \* operations started in one behaviour of the fair specification
MaxHandlerOps == 2 \* operations started in one behaviour with direct handler calls
MaxOps == 3        \* asynchronous operations started in one behaviour
MaxErrors == 2     \* longest errors array in a response payload
MaxLines == 81     \* most lines splitTextToSize hands to the layout loop

----------------------------------------------------------------------------
(* JavaScript values.  A value is a record tagged by its type. *)

Undefined == [ty |-> "undefined"]
JNull == [ty |-> "null"]
JBool(b) == [ty |-> "boolean", v |-> b]
JNum(n) == [ty |-> "number", v |-> n]
JStr(s) == [ty |-> "string", v |-> s]
JArr(s) == [ty |-> "array", v |-> s]
\* an object with the three keys the service reads; Absent marks a key the
\* object does not have
Absent == [ty |-> "absent"]
JObj(c, s, e) == [ty |-> "object", convertedContent |-> c, summary |-> s, errors |-> e]

\* ToBoolean, as applied by the || operator
Truthy(x) ==
    CASE x.ty = "undefined" -> FALSE
      [] x.ty = "null" -> FALSE
      [] x.ty = "boolean" -> x.v
      [] x.ty = "number" -> x.v # 0
      [] x.ty = "string" -> x.v # ""
      [] OTHER -> TRUE

\* a || b
Or(a, b) == IF Truthy(a) THEN a ELSE b

\* the property read  x.key : throws a TypeError on null and undefined,
\* yields undefined for a key the value does not have
CanRead(x) == x.ty \notin {"null", "undefined"}
Get(x, key) ==
    IF x.ty = "object"
    THEN (IF x[key] = Absent THEN Undefined ELSE x[key])
    ELSE Undefined

IsString(x) == x.ty = "string"

----------------------------------------------------------------------------
(* Response texts.  response.text is undefined, the empty string, a text     *)
(* that is not JSON, or the JSON text of a value.                            *)

NoText == Undefined
EmptyText == JStr("")
NonJsonText == [ty |-> "string", v |-> "Sorry, I cannot", json |-> FALSE]
JsonText(val) == [ty |-> "string", v |-> "json", json |-> TRUE, val |-> val]
EmptyObjectText == JsonText(JObj(Absent, Absent, Absent))      \* "{}"

\* JSON.parse: a SyntaxError on a text that is not JSON, otherwise the value
\* the text encodes
Parses(text) == text.ty = "string" /\ "json" \in DOMAIN text /\ text.json
JSONParse(text) == text.val
----------------------------------------------------------------------------
(* convertToPressbooks (geminiService.ts) *)

\* the messages of the exceptions the call can end with
ApiErrorMsg == "ApiError: request to the model failed"
SyntaxErrorMsg == "SyntaxError: Unexpected token in JSON"
TypeErrorMsg == "TypeError: Cannot read properties of null"

Returned(value) == [ok |-> TRUE, value |-> value]
Thrown(message) == [ok |-> FALSE, message |-> message]

\* Coerce without the default of summary
Coerce_noSummaryDefault(parsed) ==
    [ty |-> "ConversionResult",
     convertedContent |-> Or(Get(parsed, "convertedContent"), JStr("")),
     summary |-> Get(parsed, "summary"),
     errors |-> Get(parsed, "errors")]

\* Coerce with the issues passed on in reverse order
Reverse(s) == [i \in 1..Len(s) |-> s[Len(s) + 1 - i]]
Coerce_reversedErrors(parsed) ==
    [ty |-> "ConversionResult",
     convertedContent |-> Or(Get(parsed, "convertedContent"), JStr("")),
     summary |-> Or(Get(parsed, "summary"), JStr("")),
     errors |-> IF Get(parsed, "errors").ty = "array"
                THEN JArr(Reverse(Get(parsed, "errors").v))
                ELSE Get(parsed, "errors")]

\* lines 79-83: the object literal built from the parsed response
Coerce(parsed) ==
    [ty |-> "ConversionResult",
     convertedContent |-> Or(Get(parsed, "convertedContent"), JStr("")),
     summary |-> Or(Get(parsed, "summary"), JStr("")),
     errors |-> Get(parsed, "errors")]

\* lines 78-83: what the call does with the response text once the request
\* has resolved
ConvertToPressbooks(text) ==
    LET t == Or(text, EmptyObjectText) IN
    IF ~Parses(t) THEN Thrown(SyntaxErrorMsg)
    ELSE LET parsed == JSONParse(t) IN
         IF ~CanRead(parsed) THEN Thrown(TypeErrorMsg)
         ELSE Returned(Coerce(parsed))

\* App.tsx line 439: result.errors && result.errors.length > 0 ; the issues
\* the result panel lists
RenderedIssues(res) ==
    IF Truthy(res.errors) /\ res.errors.ty = "array" THEN res.errors.v ELSE <<>>

----------------------------------------------------------------------------
(* The response payloads the external capability may produce *)

SeqsUpTo(S, n) == UNION {[1..k -> S] : k \in 0..n}

Issues ==
    {[snippet |-> "$x^2", message |-> "unclosed delimiter", suggestion |-> "$x^2$"],
     [snippet |-> "\\frac{a", message |-> "unmatched brace", suggestion |-> "\\frac{a}{b}"]}

\* converted content that still carries math in a source delimiter
DollarContent == "see $x^2$"
ParenContent == "see \\(x^2\\)"

ScalarVals ==
    {JNull, JBool(FALSE), JBool(TRUE), JNum(0), JNum(5), JStr(""), JStr("c"),
     JStr(DollarContent), JStr(ParenContent)}
FieldVals == ScalarVals \cup {Absent, JArr(<<>>)}
ErrorsVals == {Absent, JNull, JStr("e")} \cup {JArr(s) : s \in SeqsUpTo(Issues, MaxErrors)}

ParsedObjects == {JObj(c, s, e) : c \in FieldVals, s \in FieldVals, e \in ErrorsVals}
ParsedValues == ParsedObjects \cup {JNull, JBool(TRUE), JNum(5), JStr("c"), JArr(<<>>)}
ResponseTexts == {NoText, EmptyText, NonJsonText} \cup {JsonText(v) : v \in ParsedValues}

----------------------------------------------------------------------------
(* SpecService: one call of convertToPressbooks at a time *)

SvcIdle == [pc |-> "idle", requests |-> 0, text |-> NoText, out |-> Thrown("")]

\* line 49: the call issues its request and suspends at the await
SvcCall ==
    /\ svc.pc # "awaiting"
    /\ svc' = [SvcIdle EXCEPT !.pc = "awaiting", !.requests = 1]
    /\ UNCHANGED appVars

\* line 49: the request rejects; the await throws out of the call
SvcReject ==
    /\ svc.pc = "awaiting"
    /\ svc' = [svc EXCEPT !.pc = "rejected", !.out = Thrown(ApiErrorMsg)]
    /\ UNCHANGED appVars

\* lines 78-83 when they run to the return statement
SvcReturn ==
    /\ svc.pc = "awaiting"
    /\ \E text \in ResponseTexts :
          /\ ConvertToPressbooks(text).ok
          /\ svc' = [svc EXCEPT !.pc = "returned", !.text = text,
                                !.out = ConvertToPressbooks(text)]
    /\ UNCHANGED appVars

\* lines 78-83 when JSON.parse or a property read throws
SvcThrow ==
    /\ svc.pc = "awaiting"
    /\ \E text \in ResponseTexts :
          /\ ~ConvertToPressbooks(text).ok
          /\ svc' = [svc EXCEPT !.pc = "thrown", !.text = text,
                                !.out = ConvertToPressbooks(text)]
    /\ UNCHANGED appVars
----------------------------------------------------------------------------
(* SpecPdf: the layout loop of downloadPDF, App.tsx lines 168-189 *)

Margin == 10           \* line 171
LineHeight == 7        \* line 185
PageHeight == 297      \* line 173: the height of the default (A4, mm) page

PdfIdle == [pc |-> "idle", lines |-> 0, placed |-> 0, cursorY |-> Margin, pages |-> <<<<>>>>]

\* lines 170-177: a new document of one page; splitTextToSize yields n lines
PdfStart(n) ==
    /\ pdf.pc \in {"idle", "saved"}
    /\ pdf' = [PdfIdle EXCEPT !.pc = "loop", !.lines = n]
    /\ UNCHANGED <<input, url, result, isLoading, error, activeTab, pending,
                   nextId, calls, requests, last, svc>>

\* the document after one more line is drawn; startsPage says whether
\* doc.addPage() ran first, y is where the line is drawn
WithLine(doc, startsPage, y) ==
    LET pages == IF startsPage THEN Append(doc.pages, <<>>) ELSE doc.pages
        n == Len(pages)
    IN  [doc EXCEPT !.pages = [pages EXCEPT ![n] = Append(pages[n],
                                   [line |-> doc.placed + 1, y |-> y])],
                    !.placed = doc.placed + 1,
                    !.cursorY = y + LineHeight]

\* PlaceLine leaving the cursor where it is after doc.addPage()
PlaceLine_noCursorReset(doc) ==
    WithLine(doc, doc.cursorY > PageHeight - Margin, doc.cursorY)

\* lines 179-186: one iteration of lines.forEach
PlaceLine(doc) ==
    LET startsPage == doc.cursorY > PageHeight - Margin
    IN  WithLine(doc, startsPage, IF startsPage THEN Margin ELSE doc.cursorY)

PdfPlaceLine ==
    /\ pdf.pc = "loop"
    /\ pdf.placed < pdf.lines
    /\ pdf' = PlaceLine(pdf)
    /\ UNCHANGED <<input, url, result, isLoading, error, activeTab, pending,
                   nextId, calls, requests, last, svc>>

\* line 188: doc.save
PdfSave ==
    /\ pdf.pc = "loop"
    /\ pdf.placed = pdf.lines
    /\ pdf' = [pdf EXCEPT !.pc = "saved"]
    /\ UNCHANGED <<input, url, result, isLoading, error, activeTab, pending,
                   nextId, calls, requests, last, svc>>

----------------------------------------------------------------------------
(* The App component (App.tsx): texts, outstanding operations *)

\* the texts typed, extracted, read or fetched: empty, whitespace only, and
\* two with content
Texts == {<<>>, <<" ">>, <<" ", "a", " ">>, <<"b">>}
Urls == {"", "https://example.org/doc"}
Tabs == {"text", "file", "url"}

\* String.prototype.trim
RECURSIVE TrimStart(_)
TrimStart(s) == IF s # <<>> /\ Head(s) = " " THEN TrimStart(Tail(s)) ELSE s
RECURSIVE TrimEnd(_)
TrimEnd(s) ==
    IF s # <<>> /\ s[Len(s)] = " " THEN TrimEnd(SubSeq(s, 1, Len(s) - 1)) ELSE s
Trim(s) == TrimEnd(TrimStart(s))

\* !input.trim()
Blank(s) == Trim(s) = <<>>

\* an asynchronous operation a handler has started: the promise (or the
\* FileReader) it waits for.  pending lists them in the order they were
\* started.  arg is the input a conversion call was given; abandoned records
\* that clearAll ran while the conversion call was outstanding; overtaken
\* records that result holds the response of a conversion call started later.
Op(kind, arg) ==
    [kind |-> kind, arg |-> arg, abandoned |-> FALSE, overtaken |-> FALSE]
NoOp == Op("none", <<>>)
Event(act, op) == [act |-> act, op |-> op]

Outstanding(kind) == {i \in 1..Len(pending) : pending[i].kind = kind}
Conversions == Outstanding("convert")
Ingestions == {i \in 1..Len(pending) : pending[i].kind \in {"pdf", "docx", "text", "fetch"}}
Settled(i) == [j \in 1..(Len(pending) - 1) |-> IF j < i THEN pending[j] ELSE pending[j + 1]]
\* the operations left when conversion call i has stored its response: the
\* conversion calls started before it are overtaken
SettledOvertaking(i) ==
    [j \in 1..(Len(pending) - 1) |->
        IF j < i /\ pending[j].kind = "convert"
        THEN [pending[j] EXCEPT !.overtaken = TRUE]
        ELSE Settled(i)[j]]

\* the response texts the App specification lets the capability answer with
GoodText ==
    JsonText(JObj(JStr("[latex]x^2[/latex]"), JStr("1 equation converted"),
                  JArr(<<CHOOSE i \in Issues : i.snippet = "$x^2">>)))
AppResponses == {GoodText, NoText, NonJsonText}

ExtractErrorMsg == "Failed to extract text from file: Invalid PDF structure"
FetchErrorMsgs == {"Failed to fetch URL", "Failed to fetch"}

Init ==
    /\ input = <<>>
    /\ url = ""
    /\ result = JNull
    /\ isLoading = FALSE
    /\ error = JNull
    /\ activeTab = "text"
    /\ pending = <<>>
    /\ nextId = 0
    /\ calls = 0
    /\ requests = 0
    /\ last = Event("init", NoOp)
    /\ pdf = PdfIdle
    /\ svc = SvcIdle

----------------------------------------------------------------------------
(* handleConvert, lines 128-140 *)

\* lines 130-133: up to the await; convertToPressbooks issues its request
StartConvert(act) ==
    /\ nextId < MaxOps
    /\ isLoading' = TRUE
    /\ error' = JNull
    /\ pending' = Append(pending, Op("convert", input))
    /\ nextId' = nextId + 1
    /\ calls' = calls + 1
    /\ requests' = requests + 1
    /\ last' = Event(act, Op("convert", input))
    /\ UNCHANGED <<input, url, result, activeTab, svc, pdf>>

\* HandleConvert with the guard of line 129 moved below setError(null)
HandleConvert_clearsError(act) ==
    IF Blank(input)
    THEN /\ error' = JNull
         /\ last' = Event(act, NoOp)
         /\ UNCHANGED <<input, url, result, isLoading, activeTab, pending,
                        nextId, calls, requests, svc, pdf>>
    ELSE StartConvert(act)

\* line 129 and what follows it
HandleConvert(act) ==
    IF Blank(input)
    THEN /\ last' = Event(act, NoOp)
         /\ UNCHANGED <<input, url, result, isLoading, error, activeTab, pending,
                        nextId, calls, requests, svc, pdf>>
    ELSE StartConvert(act)

\* line 356: disabled={isLoading || !input.trim()}
ConvertDisabled == isLoading \/ Blank(input)

\* lines 354-358: the Convert button, disabled={isLoading || !input.trim()}
ClickConvert ==
    /\ ~isLoading
    /\ ~Blank(input)
    /\ HandleConvert("ClickConvert")

\* lines 415-429: the error panel, titled "Conversion Failed", is rendered with
\* its Try Again button whenever error is truthy
TryAgainOffered == Truthy(error)

\* lines 415-429: the Try Again button of the error panel
ClickTryAgain ==
    /\ Truthy(error)
    /\ HandleConvert("ClickTryAgain")

\* lines 133-134, 137-138: the call returned a ConversionResult
ConvertReturns(i, text) ==
    /\ i \in Conversions
    /\ ConvertToPressbooks(text).ok
    /\ result' = ConvertToPressbooks(text).value
    /\ isLoading' = FALSE
    /\ pending' = SettledOvertaking(i)
    /\ last' = Event("ConvertReturns", pending[i])
    /\ UNCHANGED <<input, url, error, activeTab, nextId, calls, requests, svc, pdf>>

\* lines 135-138: the call threw after the response arrived
ConvertThrows(i, text) ==
    /\ i \in Conversions
    /\ ~ConvertToPressbooks(text).ok
    /\ error' = JStr(ConvertToPressbooks(text).message)
    /\ isLoading' = FALSE
    /\ pending' = Settled(i)
    /\ last' = Event("ConvertThrows", pending[i])
    /\ UNCHANGED <<input, url, result, activeTab, nextId, calls, requests, svc, pdf>>

\* ConvertRejects storing an empty ConversionResult next to the error
ConvertRejects_partialResult(i) ==
    /\ i \in Conversions
    /\ error' = JStr(ApiErrorMsg)
    /\ result' = Coerce(JObj(Absent, Absent, Absent))
    /\ isLoading' = FALSE
    /\ pending' = Settled(i)
    /\ last' = Event("ConvertRejects", pending[i])
    /\ UNCHANGED <<input, url, activeTab, nextId, calls, requests, svc, pdf>>

\* ConvertRejects sending the request again by itself
ConvertRejects_autoRetry(i) ==
    /\ i \in Conversions
    /\ requests < MaxOps + 1
    /\ error' = JStr(ApiErrorMsg)
    /\ requests' = requests + 1
    /\ last' = Event("ConvertRejects", pending[i])
    /\ UNCHANGED <<input, url, result, isLoading, activeTab, pending, nextId,
                   calls, svc, pdf>>

\* lines 135-138: the request itself rejected
ConvertRejects(i) ==
    /\ i \in Conversions
    /\ error' = JStr(ApiErrorMsg)
    /\ isLoading' = FALSE
    /\ pending' = Settled(i)
    /\ last' = Event("ConvertRejects", pending[i])
    /\ UNCHANGED <<input, url, result, activeTab, nextId, calls, requests, svc, pdf>>

----------------------------------------------------------------------------
(* onDrop, lines 64-93 *)

\* line 66: no accepted file
DropNothing ==
    /\ activeTab = "file"
    /\ last' = Event("DropNothing", NoOp)
    /\ UNCHANGED <<input, url, result, isLoading, error, activeTab, pending,
                   nextId, calls, requests, svc, pdf>>

\* lines 68-76: a PDF or DOCX file; the handler suspends in the extraction
DropDocument(kind) ==
    /\ activeTab = "file"
    /\ nextId < MaxOps
    /\ isLoading' = TRUE
    /\ error' = JNull
    /\ pending' = Append(pending, Op(kind, <<>>))
    /\ nextId' = nextId + 1
    /\ last' = Event("DropDocument", Op(kind, <<>>))
    /\ UNCHANGED <<input, url, result, activeTab, calls, requests, svc, pdf>>

\* ExtractResolves dropping the result of the previous conversion
ExtractResolves_clearsResult(i, text) ==
    /\ i \in Outstanding("pdf") \cup Outstanding("docx")
    /\ input' = text
    /\ result' = JNull
    /\ activeTab' = "text"
    /\ isLoading' = FALSE
    /\ pending' = Settled(i)
    /\ last' = Event("ExtractResolves", pending[i])
    /\ UNCHANGED <<url, error, nextId, calls, requests, svc, pdf>>

\* lines 74/77, 86, 91: the extraction resolved
ExtractResolves(i, text) ==
    /\ i \in Outstanding("pdf") \cup Outstanding("docx")
    /\ input' = text
    /\ activeTab' = "text"
    /\ isLoading' = FALSE
    /\ pending' = Settled(i)
    /\ last' = Event("ExtractResolves", pending[i])
    /\ UNCHANGED <<url, result, error, nextId, calls, requests, svc, pdf>>

\* ExtractRejects without the reset of the loading flag
ExtractRejects_staysLoading(i) ==
    /\ i \in Outstanding("pdf") \cup Outstanding("docx")
    /\ error' = JStr(ExtractErrorMsg)
    /\ pending' = Settled(i)
    /\ last' = Event("ExtractRejects", pending[i])
    /\ UNCHANGED <<input, url, result, isLoading, activeTab, nextId, calls,
                   requests, svc, pdf>>

\* lines 87-91: the extraction rejected
ExtractRejects(i) ==
    /\ i \in Outstanding("pdf") \cup Outstanding("docx")
    /\ error' = JStr(ExtractErrorMsg)
    /\ isLoading' = FALSE
    /\ pending' = Settled(i)
    /\ last' = Event("ExtractRejects", pending[i])
    /\ UNCHANGED <<input, url, result, activeTab, nextId, calls, requests, svc, pdf>>

\* lines 68-69, 79-86, 91: any other file; readAsText is started and not
\* awaited, so the handler runs to the end of its finally block
DropText ==
    /\ activeTab = "file"
    /\ nextId < MaxOps
    /\ isLoading' = FALSE
    /\ error' = JNull
    /\ activeTab' = "text"
    /\ pending' = Append(pending, Op("text", <<>>))
    /\ nextId' = nextId + 1
    /\ last' = Event("DropText", Op("text", <<>>))
    /\ UNCHANGED <<input, url, result, calls, requests, svc, pdf>>

\* lines 80-83: reader.onload
ReaderLoads(i, text) ==
    /\ i \in Outstanding("text")
    /\ input' = text
    /\ pending' = Settled(i)
    /\ last' = Event("ReaderLoads", pending[i])
    /\ UNCHANGED <<url, result, isLoading, error, activeTab, nextId, calls,
                   requests, svc, pdf>>

\* lines 79-84: the read fails; the reader has no onerror handler
ReaderFails(i) ==
    /\ i \in Outstanding("text")
    /\ pending' = Settled(i)
    /\ last' = Event("ReaderFails", pending[i])
    /\ UNCHANGED <<input, url, result, isLoading, error, activeTab, nextId, calls,
                   requests, svc, pdf>>

----------------------------------------------------------------------------
(* handleFetchUrl, lines 107-126 *)

\* lines 109-112: up to the await; the request to /api/fetch-url is issued
StartFetch(act) ==
    /\ nextId < MaxOps
    /\ isLoading' = TRUE
    /\ error' = JNull
    /\ pending' = Append(pending, Op("fetch", <<>>))
    /\ nextId' = nextId + 1
    /\ last' = Event(act, Op("fetch", <<>>))
    /\ UNCHANGED <<input, url, result, activeTab, calls, requests, svc, pdf>>

\* line 108 and what follows it
HandleFetchUrl(act) ==
    IF url = ""
    THEN /\ last' = Event(act, NoOp)
         /\ UNCHANGED <<input, url, result, isLoading, error, activeTab, pending,
                        nextId, calls, requests, svc, pdf>>
    ELSE StartFetch(act)

\* lines 328-330: the Fetch button, disabled={isLoading || !url}
ClickFetch ==
    /\ activeTab = "url"
    /\ ~isLoading
    /\ url # ""
    /\ HandleFetchUrl("ClickFetch")

\* lines 117-120, 124: the response is ok
FetchResolves(i, text) ==
    /\ i \in Outstanding("fetch")
    /\ input' = text
    /\ activeTab' = "text"
    /\ url' = ""
    /\ isLoading' = FALSE
    /\ pending' = Settled(i)
    /\ last' = Event("FetchResolves", pending[i])
    /\ UNCHANGED <<result, error, nextId, calls, requests, svc, pdf>>

\* FetchFails emptying the URL field as the success path does
FetchFails_clearsUrl(i, msg) ==
    /\ i \in Outstanding("fetch")
    /\ error' = JStr(msg)
    /\ url' = ""
    /\ isLoading' = FALSE
    /\ pending' = Settled(i)
    /\ last' = Event("FetchFails", pending[i])
    /\ UNCHANGED <<input, result, activeTab, nextId, calls, requests, svc, pdf>>

\* lines 113-116, 121-124: the response is not ok, or fetch rejected
FetchFails(i, msg) ==
    /\ i \in Outstanding("fetch")
    /\ error' = JStr(msg)
    /\ isLoading' = FALSE
    /\ pending' = Settled(i)
    /\ last' = Event("FetchFails", pending[i])
    /\ UNCHANGED <<input, url, result, activeTab, nextId, calls, requests, svc, pdf>>

----------------------------------------------------------------------------
(* The other controls *)

\* lines 265-274: the textarea, onChange={(e) => setInput(e.target.value)}
TypeInput(text) ==
    /\ activeTab = "text"
    /\ text # input
    /\ input' = text
    /\ last' = Event("TypeInput", NoOp)
    /\ UNCHANGED <<url, result, isLoading, error, activeTab, pending, nextId,
                   calls, requests, svc, pdf>>

\* lines 321-327: the URL field
TypeUrl(u) ==
    /\ activeTab = "url"
    /\ u # url
    /\ url' = u
    /\ last' = Event("TypeUrl", NoOp)
    /\ UNCHANGED <<input, result, isLoading, error, activeTab, pending, nextId,
                   calls, requests, svc, pdf>>

\* lines 230-259: the three tab buttons
SelectTab(t) ==
    /\ t # activeTab
    /\ activeTab' = t
    /\ last' = Event("SelectTab", NoOp)
    /\ UNCHANGED <<input, url, result, isLoading, error, pending, nextId, calls,
                   requests, svc, pdf>>

\* lines 148-153; the calls outstanding at that moment are abandoned
ClearAll ==
    /\ input' = <<>>
    /\ result' = JNull
    /\ error' = JNull
    /\ url' = ""
    /\ pending' = [i \in 1..Len(pending) |->
                      IF pending[i].kind = "convert"
                      THEN [pending[i] EXCEPT !.abandoned = TRUE, !.overtaken = FALSE]
                      ELSE pending[i]]
    /\ last' = Event("ClearAll", NoOp)
    /\ UNCHANGED <<isLoading, activeTab, nextId, calls, requests, svc, pdf>>

----------------------------------------------------------------------------
(* The export buttons, lines 155-189 and 381-398 *)

\* line 381: the buttons are rendered under {result && ...}
ResultShown == Truthy(result)

\* the file a download hands to the browser
Exported(act, file) == [act |-> act, op |-> NoOp, file |-> file]

\* lines 157-161: the Blob and the name of the Markdown file
MarkdownFile(res) ==
    [name |-> "pressbook-chapter.md", type |-> "text/markdown",
     content |-> res.convertedContent]

\* lines 176-188: the text laid out in the PDF document and the name it is
\* saved under
PdfFile(res) ==
    [name |-> "pressbook-chapter.pdf", type |-> "application/pdf",
     content |-> res.convertedContent]

\* DownloadMarkdown writing the summary into the file
DownloadMarkdown_summary ==
    /\ ResultShown
    /\ last' = Exported("DownloadMarkdown",
                        [MarkdownFile(result) EXCEPT !.content = result.summary])
    /\ UNCHANGED <<input, url, result, isLoading, error, activeTab, pending,
                   nextId, calls, requests, svc, pdf>>

\* lines 155-166
DownloadMarkdown ==
    /\ ResultShown
    /\ last' = IF ~Truthy(result)
               THEN Event("DownloadMarkdown", NoOp)
               ELSE Exported("DownloadMarkdown", MarkdownFile(result))
    /\ UNCHANGED <<input, url, result, isLoading, error, activeTab, pending,
                   nextId, calls, requests, svc, pdf>>

\* lines 168-189
DownloadPDF ==
    /\ ResultShown
    /\ last' = IF ~Truthy(result)
               THEN Event("DownloadPDF", NoOp)
               ELSE Exported("DownloadPDF", PdfFile(result))
    /\ UNCHANGED <<input, url, result, isLoading, error, activeTab, pending,
                   nextId, calls, requests, svc, pdf>>

----------------------------------------------------------------------------

Next ==
    \/ ClickConvert
    \/ ClickTryAgain
    \/ \E i \in 1..Len(pending), text \in AppResponses : ConvertReturns(i, text)
    \/ \E i \in 1..Len(pending), text \in AppResponses : ConvertThrows(i, text)
    \/ \E i \in 1..Len(pending) : ConvertRejects(i)
    \/ DropNothing
    \/ \E kind \in {"pdf", "docx"} : DropDocument(kind)
    \/ \E i \in 1..Len(pending), text \in Texts : ExtractResolves(i, text)
    \/ \E i \in 1..Len(pending) : ExtractRejects(i)
    \/ DropText
    \/ \E i \in 1..Len(pending), text \in Texts : ReaderLoads(i, text)
    \/ \E i \in 1..Len(pending) : ReaderFails(i)
    \/ ClickFetch
    \/ \E i \in 1..Len(pending), text \in Texts : FetchResolves(i, text)
    \/ \E i \in 1..Len(pending), msg \in FetchErrorMsgs : FetchFails(i, msg)
    \/ \E text \in Texts : TypeInput(text)
    \/ \E u \in Urls : TypeUrl(u)
    \/ \E t \in Tabs : SelectTab(t)
    \/ ClearAll
    \/ DownloadMarkdown
    \/ DownloadPDF

Spec == Init /\ [][Next]_vars

\* an outstanding operation resolves or rejects and its continuation runs
Settle ==
    \/ \E i \in 1..Len(pending), text \in AppResponses : ConvertReturns(i, text)
    \/ \E i \in 1..Len(pending), text \in AppResponses : ConvertThrows(i, text)
    \/ \E i \in 1..Len(pending) : ConvertRejects(i)
    \/ \E i \in 1..Len(pending), text \in Texts : ExtractResolves(i, text)
    \/ \E i \in 1..Len(pending) : ExtractRejects(i)
    \/ \E i \in 1..Len(pending), text \in Texts : ReaderLoads(i, text)
    \/ \E i \in 1..Len(pending) : ReaderFails(i)
    \/ \E i \in 1..Len(pending), text \in Texts : FetchResolves(i, text)
    \/ \E i \in 1..Len(pending), msg \in FetchErrorMsgs : FetchFails(i, msg)

\* the steps of the App in behaviours that start at most MaxLiveOps operations
NextLive == Next /\ nextId' <= MaxLiveOps

\* the App when every asynchronous call it waits for resolves or rejects
SpecLive == Init /\ [][NextLive]_vars /\ WF_vars(Settle)

\* handleConvert and handleFetchUrl called as functions, whatever the buttons
\* that are bound to them allow
InvokeHandleConvert == HandleConvert("handleConvert")

InvokeHandleFetchUrl == HandleFetchUrl("handleFetchUrl")

\* the steps of behaviours that start at most MaxHandlerOps operations
NextHandlers ==
    /\ Next \/ InvokeHandleConvert \/ InvokeHandleFetchUrl
    /\ nextId' <= MaxHandlerOps

\* the App with its two request handlers also called directly
SpecHandlers == Init /\ [][NextHandlers]_vars

NextService == SvcCall \/ SvcReject \/ SvcReturn \/ SvcThrow

SpecService == Init /\ [][NextService]_vars

NextPdf == (\E n \in 0..MaxLines : PdfStart(n)) \/ PdfPlaceLine \/ PdfSave

SpecPdf == Init /\ [][NextPdf]_vars
----------------------------------------------------------------------------
(* Properties *)

ConvertFailures == {"ConvertThrows", "ConvertRejects"}
ConvertArrivals == {"ConvertReturns", "ConvertThrows", "ConvertRejects"}
ConvertFailureMsgs == {JStr(ApiErrorMsg), JStr(SyntaxErrorMsg), JStr(TypeErrorMsg)}

\* what JSON.parse gave the call whose response svc.text is
SvcParsed == JSONParse(Or(svc.text, EmptyObjectText))

\* C1: in every reachable state at most one call of convertToPressbooks is
\* outstanding.
C1_AtMostOneConversion == Cardinality(Conversions) <= 1

\* C2: no ingestion (file extraction, file read, URL fetch) is outstanding
\* together with a conversion call, and no two ingestions are outstanding
\* together.
C2_IngestionRunsAlone ==
    /\ Cardinality(Ingestions) <= 1
    /\ Ingestions # {} => Conversions = {}

\* C3: the step in which a conversion call fails stores the failure in error
\* and changes neither input nor result.
C3_FailureKeepsInputAndResult ==
    [][last'.act \in ConvertFailures =>
          /\ error' \in ConvertFailureMsgs
          /\ input' = input
          /\ result' = result]_vars

\* C3 witness: a conversion has just failed, its error is shown, no result was
\* stored and the input it was given is still the input.
C3_Witness ==
    /\ last.act \in ConvertFailures
    /\ error \in ConvertFailureMsgs
    /\ result = JNull
    /\ ~Blank(input)
    /\ input = last.op.arg

\* C4: a response text that is not JSON makes convertToPressbooks return the
\* empty-result shape (convertedContent "" and summary "") instead of throwing.
C4_NonJsonGivesEmptyResult ==
    (svc.pc \in {"returned", "thrown"} /\ svc.text = NonJsonText) =>
        /\ svc.pc = "returned"
        /\ svc.out.ok
        /\ svc.out.value.convertedContent = JStr("")
        /\ svc.out.value.summary = JStr("")

\* C5: whatever value the response text parses to, the call returns (it does
\* not throw) a result whose convertedContent and summary are strings.
C5_CoercionIsTotal ==
    (svc.pc \in {"returned", "thrown"} /\ Parses(Or(svc.text, EmptyObjectText))) =>
        /\ svc.pc = "returned"
        /\ svc.out.ok
        /\ IsString(svc.out.value.convertedContent)
        /\ IsString(svc.out.value.summary)

\* C6 as stated: for a parsed response object, convertedContent and summary
\* are the payload's values when the key is present and "" when it is
\* missing; with errors missing the call still returns and no issue is listed.
C6_PresentValuesAreKept ==
    (svc.pc \in {"returned", "thrown"} /\ Parses(Or(svc.text, EmptyObjectText))
        /\ SvcParsed.ty = "object") =>
        /\ svc.pc = "returned"
        /\ svc.out.value.convertedContent =
              (IF SvcParsed.convertedContent # Absent
               THEN SvcParsed.convertedContent ELSE JStr(""))
        /\ svc.out.value.summary =
              (IF SvcParsed.summary # Absent THEN SvcParsed.summary ELSE JStr(""))
        /\ SvcParsed.errors = Absent => RenderedIssues(svc.out.value) = <<>>

\* a JSON value the || operator lets through
KeptByOr(x) == x \notin {Absent, JNull, JBool(FALSE), JNum(0), JStr("")}

\* C6 amended: for a parsed response object, convertedContent and summary are
\* the payload's values when the key is present with a truthy value, and ""
\* when the key is missing or its value is falsy (null, false, 0, ""); with
\* errors missing the call still returns and no issue is listed.
C6_TruthyValuesAreKept ==
    (svc.pc \in {"returned", "thrown"} /\ Parses(Or(svc.text, EmptyObjectText))
        /\ SvcParsed.ty = "object") =>
        /\ svc.pc = "returned"
        /\ svc.out.value.convertedContent =
              (IF KeptByOr(SvcParsed.convertedContent)
               THEN SvcParsed.convertedContent ELSE JStr(""))
        /\ svc.out.value.summary =
              (IF KeptByOr(SvcParsed.summary) THEN SvcParsed.summary ELSE JStr(""))
        /\ SvcParsed.errors = Absent =>
              (svc.out.value.errors = Undefined /\ RenderedIssues(svc.out.value) = <<>>)

\* C6 witness: the call returned for an object that has convertedContent and
\* lacks summary and errors.
C6_Witness ==
    /\ svc.pc = "returned"
    /\ svc.text = JsonText(JObj(JStr("c"), Absent, Absent))
    /\ svc.out.value.convertedContent = JStr("c")
    /\ svc.out.value.summary = JStr("")

\* C7: every call of convertToPressbooks has issued exactly one request,
\* whether it is outstanding, has succeeded or has failed, and a request is
\* only ever issued by a click on Convert or Try Again.
C7_OneRequestPerCall ==
    /\ [](requests = calls)
    /\ [][requests' # requests =>
            /\ last'.act \in {"ClickConvert", "ClickTryAgain"}
            /\ requests' = requests + 1]_vars

\* C7 witness: a conversion call has failed, nothing is outstanding and one
\* request was issued for the one call.
C7_Witness ==
    /\ last.act \in ConvertFailures
    /\ pending = <<>>
    /\ calls = 1
    /\ requests = 1

\* C8: the arrival of the response of a conversion call that clearAll
\* abandoned is discarded: it stores no result and no error.
C8_AbandonedResponseDiscarded ==
    [][(last'.act \in ConvertArrivals /\ last'.op.abandoned) =>
          /\ result' = result
          /\ error' = error]_vars

\* C9: the errors of the returned ConversionResult are the errors of the
\* parsed response: as many entries, the same entry at every position, and
\* none when the response has no errors.
C9_ErrorsPassedThrough ==
    (svc.pc = "returned" /\ SvcParsed.ty = "object") =>
        IF SvcParsed.errors = Absent
        THEN svc.out.value.errors = Undefined
        ELSE /\ svc.out.value.errors.ty = SvcParsed.errors.ty
             /\ SvcParsed.errors.ty = "array" =>
                   /\ Len(svc.out.value.errors.v) = Len(SvcParsed.errors.v)
                   /\ \A i \in 1..Len(SvcParsed.errors.v) :
                         svc.out.value.errors.v[i] = SvcParsed.errors.v[i]
                   /\ RenderedIssues(svc.out.value) = SvcParsed.errors.v

\* C9 witness: the call returned for a response that lists two different
\* issues.
C9_Witness ==
    /\ svc.pc = "returned"
    /\ SvcParsed.ty = "object"
    /\ SvcParsed.errors.ty = "array"
    /\ Len(SvcParsed.errors.v) = 2
    /\ SvcParsed.errors.v[1] # SvcParsed.errors.v[2]
    /\ svc.out.value.errors = SvcParsed.errors

\* C10: the step in which the ingestion of a dropped file fails (extraction
\* of a PDF or DOCX, read of a plain-text file) surfaces the failure in error,
\* leaves input unchanged and issues no conversion call.
C10_DropFailureSurfaced ==
    [][last'.act \in {"ExtractRejects", "ReaderFails"} =>
          /\ Truthy(error')
          /\ input' = input
          /\ calls' = calls]_vars
\* the number of operations of a kind in a list of outstanding operations
CountOf(kind, ops) == Cardinality({i \in 1..Len(ops) : ops[i].kind = kind})

\* C11: the step in which a URL fetch fails (non-success status or network
\* failure) stores the failure in error, changes none of input, url, result
\* and activeTab, and starts no other fetch: the failed request is gone and no
\* operation was started.
C11_FetchFailureSurfaced ==
    [][last'.act = "FetchFails" =>
          /\ error' \in {JStr(m) : m \in FetchErrorMsgs}
          /\ input' = input
          /\ url' = url
          /\ result' = result
          /\ activeTab' = activeTab
          /\ nextId' = nextId
          /\ CountOf("fetch", pending') = CountOf("fetch", pending) - 1]_vars

\* C11 witness: a fetch has just failed, its message is shown, the URL is still
\* in the field and no fetch is outstanding.
C11_Witness ==
    /\ last.act = "FetchFails"
    /\ error \in {JStr(m) : m \in FetchErrorMsgs}
    /\ url # ""
    /\ CountOf("fetch", pending) = 0
Downloads == {"DownloadMarkdown", "DownloadPDF"}

IngestionFailures == {"ExtractRejects", "FetchFails"}

\* C13: after a failed file extraction or URL fetch the page does not offer
\* the handling of a conversion failure: the Try Again button, which calls
\* handleConvert, is not shown.
C13_IngestionFailureDistinct ==
    last.act \in IngestionFailures => ~TryAgainOffered
\* the source delimiters (geminiService.ts line 9) that occur in a content
ForbiddenDelimitersIn(s) ==
    CASE s = DollarContent -> {"$"}
      [] s = ParenContent -> {"\\("}
      [] OTHER -> {}

\* C14: the convertedContent of a returned ConversionResult contains no
\* forbidden source delimiter, whatever the response text was.
C14_NoForbiddenDelimiter ==
    (svc.pc = "returned" /\ IsString(svc.out.value.convertedContent)) =>
        ForbiddenDelimitersIn(svc.out.value.convertedContent.v) = {}
RECURSIVE Flatten(_)
Flatten(pages) == IF pages = <<>> THEN <<>> ELSE Head(pages) \o Flatten(Tail(pages))

\* C16: the lines drawn so far are the first lines in their order, each once;
\* on every page the j-th line is at y = margin + 7 (j - 1), never beyond
\* pageHeight - margin; a page other than the last was left exactly when the
\* cursor exceeded pageHeight - margin, so all those pages carry the same
\* number of lines; the saved document holds every line.
C16_PdfLayout ==
    pdf.pc \in {"loop", "saved"} =>
        /\ Len(Flatten(pdf.pages)) = pdf.placed
        /\ \A i \in 1..pdf.placed : Flatten(pdf.pages)[i].line = i
        /\ pdf.pc = "saved" => pdf.placed = pdf.lines
        /\ \A p \in 1..Len(pdf.pages) :
              /\ \A j \in 1..Len(pdf.pages[p]) :
                    /\ pdf.pages[p][j].y = Margin + LineHeight * (j - 1)
                    /\ pdf.pages[p][j].y <= PageHeight - Margin
              /\ p < Len(pdf.pages) =>
                    /\ Margin + LineHeight * Len(pdf.pages[p]) > PageHeight - Margin
                    /\ Len(pdf.pages[p]) = Len(pdf.pages[1])

\* C16 witness: a saved document of two full pages and a third page that
\* holds the last line.
C16_Witness ==
    /\ pdf.pc = "saved"
    /\ Len(pdf.pages) = 3
    /\ Len(pdf.pages[1]) = Len(pdf.pages[2])
    /\ Len(pdf.pages[3]) = 1
    /\ pdf.placed = pdf.lines
ConvertClicks == {"ClickConvert", "ClickTryAgain"}
IngestionStarts == {"DropNothing", "DropDocument", "DropText", "ClickFetch"}
IngestionSuccesses == {"ExtractResolves", "ReaderLoads", "FetchResolves"}
IngestionEnds == IngestionSuccesses \cup {"ExtractRejects", "ReaderFails", "FetchFails"}

\* C17: a conversion call is only issued by a click on Convert or Try Again;
\* the start and the end of an ingestion issue no conversion call and leave
\* result unchanged; the end of an ingestion starts no operation; a successful
\* file ingestion leaves url unchanged (of the state cells only input,
\* activeTab, isLoading and error may change, and url for a fetch).
C17_OnlyClicksConvert ==
    [][/\ calls' # calls => last'.act \in ConvertClicks
       /\ last'.act \in IngestionStarts \cup IngestionEnds =>
             /\ calls' = calls
             /\ requests' = requests
             /\ CountOf("convert", pending') = CountOf("convert", pending)
             /\ result' = result
       /\ last'.act \in IngestionEnds => nextId' = nextId
       /\ last'.act \in {"ExtractResolves", "ReaderLoads"} => url' = url]_vars

\* C17 witness: an extraction has just delivered a non-blank text while a
\* result of an earlier conversion is shown; no conversion call is outstanding.
C17_Witness ==
    /\ last.act = "ExtractResolves"
    /\ ~Blank(input)
    /\ result # JNull
    /\ calls = 1
    /\ CountOf("convert", pending) = 0
\* C18: isLoading is true in every state in which an operation the handlers
\* started (conversion call, URL fetch, extraction, file read) is outstanding.
C18_LoadingWhilePending == pending # <<>> => isLoading

\* C19: the response of a conversion call never replaces the result stored by
\* a conversion call that was started after it.
C19_LaterResultKept ==
    [][(last'.act = "ConvertReturns" /\ last'.op.overtaken) => result' = result]_vars
AwaitedEnds ==
    {"ConvertReturns", "ConvertThrows", "ConvertRejects", "ExtractResolves",
     "ExtractRejects", "FetchResolves", "FetchFails"}

\* C20: when every outstanding call resolves or rejects, a loading state always
\* ends (isLoading leads to ~isLoading); the continuation of every awaited
\* call resets the flag; and whenever nothing is outstanding isLoading is
\* false and the Convert button is enabled for a non-blank input.
C20_LoadingEnds ==
    /\ [](pending = <<>> => (~isLoading /\ (~Blank(input) => ~ConvertDisabled)))
    /\ [][last'.act \in AwaitedEnds => ~isLoading']_vars
    /\ (isLoading ~> ~isLoading)

\* C20 witness: an extraction has failed, nothing is outstanding, the flag is
\* reset and Convert is enabled for the non-blank input.
C20_Witness ==
    /\ last.act = "ExtractRejects"
    /\ pending = <<>>
    /\ ~isLoading
    /\ ~Blank(input)
    /\ ~ConvertDisabled
HandleConvertRuns == {"ClickConvert", "ClickTryAgain", "handleConvert"}

HandleFetchUrlRuns == {"ClickFetch", "handleFetchUrl"}

\* C21: a run of handleConvert on an empty or whitespace-only input, and a run
\* of handleFetchUrl on an empty url, starts no operation, issues no call or
\* request, and leaves input, url, result, error, isLoading and activeTab as
\* they were.
C21_GuardedHandlersDoNothing ==
    [][ (\/ (last'.act \in HandleConvertRuns /\ Blank(input))
         \/ (last'.act \in HandleFetchUrlRuns /\ url = ""))
        => (/\ last'.op = NoOp
            /\ UNCHANGED <<input, url, result, isLoading, error, activeTab,
                           pending, nextId, calls, requests>>) ]_vars

\* C21 witness: handleFetchUrl has just run on an empty url while an error and
\* a result were on screen, and nothing was started.
C21_Witness ==
    /\ last.act = "handleFetchUrl"
    /\ last.op = NoOp
    /\ url = ""
    /\ Truthy(error)
    /\ ResultShown
    /\ calls = requests
====
